---- MODULE Spec2Model ----
(***************************************************************************)
(* Model of the Track D liveness engine: LivenessDetector                  *)
(* (track_d_backend/liveness_detector.py) with its nested AttackDetector   *)
(* (track_d_backend/attack_detector.py) and the thresholds of config.py,   *)
(* the start-up of the process (config.validate_config) and the local      *)
(* WebSocket server (track_d_backend/server.py).                           *)
(*                                                                         *)
(* Specifications.  Spec: the detector fed by a free camera.  Scenarios:   *)
(* the detector fed by scripted sessions.  Startup: the process start for  *)
(* a range of configurations.  Server: server.py and its clients.  Cloud:   *)
(* server_cloud.py and its clients.                                        *)
(*                                                                         *)
(* Numbers.  Every score, confidence and ratio the code keeps as a float   *)
(* in [0,1] is kept here as an integer number of thousandths (0..1000);    *)
(* a division rounds down.  A frame is the record of the raw measurements  *)
(* the code takes of the image (np.mean, np.var, cv2.Canny density, ...).  *)
(***************************************************************************)
EXTENDS Integers, Sequences, FiniteSets, TLC

VARIABLES
    frame_buffer,        \* LivenessDetector.frame_buffer   (deque, maxlen MOTION_FRAMES)
    gray_buffer,         \* LivenessDetector.gray_buffer    (deque, maxlen MOTION_FRAMES)
    motion_history,      \* LivenessDetector.motion_history (deque, maxlen 20)
    frames_analyzed,     \* LivenessDetector.frames_analyzed
    is_live,             \* LivenessDetector.is_live
    confidence,          \* LivenessDetector.confidence
    final_decision_made, \* LivenessDetector.final_decision_made
    analysis_started,    \* LivenessDetector.analysis_started
    scores,              \* LivenessDetector.scores
    current_instruction, \* LivenessDetector.current_instruction
    attacks,             \* AttackDetector.attacks
    attack_confidence,   \* AttackDetector.attack_confidence
    brightness_history,  \* AttackDetector.brightness_history (deque, maxlen 20)
    pattern_history,     \* AttackDetector.pattern_history    (deque, maxlen 10)
    result,              \* the dict returned by the last analyze_frame call
    call,                \* the last call made on the detector, with the phase and count it found
    switches,            \* camera: changes of picture since the session began
    script,              \* scripted camera: the scenario played and the frames still to come
    boot,                \* process start: where the start-up is, with the configuration it loaded
    current_client,      \* LivenessWebSocketServer.current_client
    analysis_active,     \* LivenessWebSocketServer.analysis_active
    is_streaming,        \* LivenessWebSocketServer.is_streaming
    camera,              \* LivenessWebSocketServer.camera
    result_timestamp,    \* LivenessWebSocketServer.result_timestamp, as the seconds passed since it was taken
    handler,             \* where the handle_client coroutine of the current client is
    connection,          \* the current websocket: whether it is open, the messages sent and not yet read
    saved_count,         \* LivenessWebSocketServer.saved_count
    reply,               \* the last message other than a result the server sent, and to whom
    shown_for,           \* the seconds passed since the client was first sent the decision the detector holds
    last_frame,          \* LivenessWebSocketServer.last_frame (server_cloud.py)
    frames_received,     \* LivenessWebSocketServer.frames_received (server_cloud.py)
    pending,             \* frames_received of the frames process_frame has analyzed and not yet answered
    delivered            \* frames_received of the result the client received last

detector == <<frame_buffer, gray_buffer, motion_history, frames_analyzed, is_live,
              confidence, final_decision_made, analysis_started, scores,
              current_instruction, attacks, attack_confidence,
              brightness_history, pattern_history>>

vars == <<frame_buffer, gray_buffer, motion_history, frames_analyzed, is_live,
          confidence, final_decision_made, analysis_started, scores,
          current_instruction, attacks, attack_confidence,
          brightness_history, pattern_history, result, call, switches,
          script, boot, current_client, analysis_active, is_streaming, camera,
          result_timestamp, handler, connection, saved_count, reply,
          shown_for, last_frame, frames_received, pending, delivered>>

\* the state of LivenessWebSocketServer (server.py, server_cloud.py), of its
\* current connection and of the clock
server == <<current_client, analysis_active, is_streaming, camera, result_timestamp,
            handler, connection, saved_count, reply, shown_for, last_frame,
            frames_received, pending, delivered>>

(***************************************************************************)
(* config.py                                                               *)
(***************************************************************************)
MOTION_FRAMES == 10
MOTION_THRESHOLD_MIN == 500
MOTION_THRESHOLD_OPTIMAL == 2000
TEXTURE_VARIANCE_MIN == 80
TEXTURE_VARIANCE_OPTIMAL == 150
HF_CONTENT_MIN == 150
HF_CONTENT_OPTIMAL == 300
LBP_DIVERSITY_MIN == 25
CONSISTENCY_THRESHOLD == 15
FRAME_JUMP_THRESHOLD == 40
CONSISTENCY_WINDOW == 5
EDGE_DENSITY_MIN == 150
EDGE_DENSITY_MAX == 350
COLOR_VARIANCE_MIN == 200
COLOR_VARIANCE_OPTIMAL == 500
CHANNEL_DIVERSITY_MIN == 5
CHANNEL_DIVERSITY_OPTIMAL == 20
FFT_PATTERN_THRESHOLD == 50
LIVENESS_THRESHOLD == 700
SCREEN_VETO_ENABLED == TRUE
SCREEN_VETO_THRESHOLD == 500
SCREEN_BRIGHTNESS_UNIFORMITY == 15
SCREEN_RGB_CORRELATION == 850
PHOTO_ATTACK_TEXTURE_MAX == 500
VIDEO_REPLAY_JUMP_MIN == 35
MIN_FRAMES_FOR_DECISION == 15

\* WEIGHTS, in hundredths
WEIGHTS == [motion |-> 30, texture |-> 20, consistency |-> 10,
            edge_density |-> 10, color_variance |-> 20, pattern_detection |-> 10]

Methods == {"motion", "texture", "consistency", "edge_density",
            "color_variance", "pattern_detection"}

\* the keys of AttackDetector.attacks, in the order the dict holds them
AttackOrder == <<"photo_attack", "screen_attack", "video_replay", "fake_finger">>

AttackNames == {AttackOrder[i] : i \in 1..Len(AttackOrder)}

\* INSTRUCTIONS[key]; the 'analyzing' message is followed by a percentage
Instruction(key) == [key |-> key, pct |-> -1]

\* the capacity of motion_history and of brightness_history
HISTORY_LEN == 20

\* the number of frames that must be buffered before any scoring
MIN_BUFFERED == 3

\* the side of a patch of _check_skin_features
PATCH_SIZE == 32

(***************************************************************************)
(* Small helpers                                                           *)
(***************************************************************************)
Min2(a, b) == IF a <= b THEN a ELSE b

Max2(a, b) == IF a >= b THEN a ELSE b

Abs(a) == IF a >= 0 THEN a ELSE -a

\* min(1.0, max(0.0, x))
Clamp01(x) == Min2(1000, Max2(0, x))

RECURSIVE SumSeq(_)
SumSeq(s) == IF s = <<>> THEN 0 ELSE Head(s) + SumSeq(Tail(s))

RECURSIVE MaxSeq(_)
MaxSeq(s) == IF Len(s) = 1 THEN s[1] ELSE Max2(Head(s), MaxSeq(Tail(s)))

\* deque(maxlen=n).append(x): a full deque drops its oldest entry
DequeAppendUnbounded(q, x, n) == Append(q, x)

DequeAppend(q, x, n) == IF Len(q) < n THEN Append(q, x) ELSE Append(Tail(q), x)

\* list(q)[-n:]
LastN(q, n) == IF Len(q) <= n THEN q ELSE SubSeq(q, Len(q) - n + 1, Len(q))

\* the differences |s[i] - s[i-1]|, i = 2..Len(s)
Diffs(s) == [i \in 1..(Len(s) - 1) |-> Abs(s[i + 1] - s[i])]

(***************************************************************************)
(* The six extractors of LivenessDetector                                  *)
(***************************************************************************)
\* the average number of moved pixels over the first (up to 4) buffered pairs;
\* f.moved is np.sum(cv2.absdiff(prev, f) > MOTION_PIXEL_THRESHOLD)
AvgMotion(gb) ==
    LET n == Min2(Len(gb), 5) - 1
    IN  SumSeq([i \in 1..n |-> gb[i + 1].moved]) \div n

MotionScore(avg_motion) ==
    LET score == IF avg_motion >= MOTION_THRESHOLD_OPTIMAL THEN 1000
                 ELSE IF avg_motion >= MOTION_THRESHOLD_MIN
                      THEN 300 + (700 * (avg_motion - MOTION_THRESHOLD_MIN))
                                 \div (MOTION_THRESHOLD_OPTIMAL - MOTION_THRESHOLD_MIN)
                      ELSE (avg_motion * 300) \div MOTION_THRESHOLD_MIN
    IN  Clamp01(score)

\* _detect_motion, the score it returns
DetectMotion(gb) == IF Len(gb) < 2 THEN 0 ELSE MotionScore(AvgMotion(gb))

\* the normalisation used by texture and colour: 0..0.5 below lo, 0.5..1 up to hi
ThreeZone(v, lo, hi) ==
    IF v >= hi THEN 1000
    ELSE IF v >= lo THEN 500 + (500 * (v - lo)) \div (hi - lo)
         ELSE (v * 500) \div lo

ComputeTextureDiversity(f) == Min2(1000, (f.diversity * 1000) \div LBP_DIVERSITY_MIN)

AnalyzeTexture(f) ==
    LET variance_score  == ThreeZone(f.variance, TEXTURE_VARIANCE_MIN, TEXTURE_VARIANCE_OPTIMAL)
        hf_score        == ThreeZone(f.hf_energy, HF_CONTENT_MIN, HF_CONTENT_OPTIMAL)
        diversity_score == ComputeTextureDiversity(f)
    IN  Clamp01((variance_score * 4 + hf_score * 4 + diversity_score * 2) \div 10)

\* _check_consistency without the early return on a sudden jump
CheckConsistencyNoJump(gb) ==
    IF Len(gb) < CONSISTENCY_WINDOW THEN 500
    ELSE LET bv    == LastN([i \in 1..Len(gb) |-> gb[i].brightness], CONSISTENCY_WINDOW)
             d     == Diffs(bv)
             total == SumSeq(d)
         IN  IF total < CONSISTENCY_THRESHOLD * Len(d) THEN 1000
             ELSE Max2(0, 1000 - ((total - CONSISTENCY_THRESHOLD * Len(d)) * 1000)
                                 \div (50 * Len(d)))

\* lines 394-429: the consistency score of the buffered grayscale frames
CheckConsistency(gb) ==
    IF Len(gb) < CONSISTENCY_WINDOW THEN 500
    ELSE LET bv    == LastN([i \in 1..Len(gb) |-> gb[i].brightness], CONSISTENCY_WINDOW)
             d     == Diffs(bv)
             total == SumSeq(d)
         IN  IF MaxSeq(d) > FRAME_JUMP_THRESHOLD THEN 200
             ELSE IF total < CONSISTENCY_THRESHOLD * Len(d) THEN 1000
                  ELSE Max2(0, 1000 - ((total - CONSISTENCY_THRESHOLD * Len(d)) * 1000)
                                      \div (50 * Len(d)))

\* _analyze_edge_density without the max(0.0, ...) of the too-many-edges branch
AnalyzeEdgeDensityNoFloor(f) ==
    IF EDGE_DENSITY_MIN <= f.edge_density /\ f.edge_density <= EDGE_DENSITY_MAX THEN 1000
    ELSE IF f.edge_density < EDGE_DENSITY_MIN
         THEN (f.edge_density * 1000) \div EDGE_DENSITY_MIN
         ELSE 1000 - ((f.edge_density - EDGE_DENSITY_MAX) * 1000) \div 300

AnalyzeEdgeDensity(f) ==
    IF EDGE_DENSITY_MIN <= f.edge_density /\ f.edge_density <= EDGE_DENSITY_MAX THEN 1000
    ELSE IF f.edge_density < EDGE_DENSITY_MIN
         THEN (f.edge_density * 1000) \div EDGE_DENSITY_MIN
         ELSE Max2(0, 1000 - ((f.edge_density - EDGE_DENSITY_MAX) * 1000) \div 300)

AnalyzeColorVariance(f) ==
    LET variance_score  == ThreeZone(f.total_variance, COLOR_VARIANCE_MIN, COLOR_VARIANCE_OPTIMAL)
        diversity_score == ThreeZone(f.channel_diversity, CHANNEL_DIVERSITY_MIN,
                                     CHANNEL_DIVERSITY_OPTIMAL)
    IN  Clamp01((variance_score * 6 + diversity_score * 4) \div 10)

DetectPatterns(f) ==
    LET score == IF f.fft_ratio >= FFT_PATTERN_THRESHOLD THEN 200
                 ELSE 1000 - (f.fft_ratio * 800) \div FFT_PATTERN_THRESHOLD
    IN  Clamp01(score)

\* the ScoreSet after the six extractors ran on frame f with grayscale buffer gb
ExtractScores(f, gb) ==
    [motion            |-> DetectMotion(gb),
     texture           |-> AnalyzeTexture(f),
     consistency       |-> CheckConsistency(gb),
     edge_density      |-> AnalyzeEdgeDensity(f),
     color_variance    |-> AnalyzeColorVariance(f),
     pattern_detection |-> DetectPatterns(f)]

\* _calculate_overall_score as the plain mean of the six scores
CalculateOverallScoreUnweighted(sc) ==
    Clamp01((sc.motion + sc.texture + sc.consistency + sc.edge_density
             + sc.color_variance + sc.pattern_detection) \div 6)

CalculateOverallScore(sc) ==
    Clamp01((sc.motion * WEIGHTS.motion + sc.texture * WEIGHTS.texture
             + sc.consistency * WEIGHTS.consistency
             + sc.edge_density * WEIGHTS.edge_density
             + sc.color_variance * WEIGHTS.color_variance
             + sc.pattern_detection * WEIGHTS.pattern_detection) \div 100)

(***************************************************************************)
(* AttackDetector                                                          *)
(***************************************************************************)
\* a / b > c / d for b, d > 0 and a, c >= 0, without forming the products
RECURSIVE FracGreater(_, _, _, _)
FracGreater(a, b, c, d) ==
    IF a \div b # c \div d THEN a \div b > c \div d
    ELSE IF a % b = 0 THEN FALSE
         ELSE IF c % d = 0 THEN TRUE
              ELSE FracGreater(d, c % d, b, a % b)

\* np.corrcoef(x, y)[0, 1] > num / den for two lists of the same length;
\* a constant list gives nan, and nan > t is False
CorrelationAbove(x, y, num, den) ==
    LET n   == Len(x)
        sx  == SumSeq(x)
        sy  == SumSeq(y)
        cov == n * SumSeq([i \in 1..n |-> x[i] * y[i]]) - sx * sy
        vx  == n * SumSeq([i \in 1..n |-> x[i] * x[i]]) - sx * sx
        vy  == n * SumSeq([i \in 1..n |-> y[i] * y[i]]) - sy * sy
    IN  /\ vx > 0
        /\ vy > 0
        /\ cov > 0
        /\ FracGreater(den * den * cov, num * num * vx, vy, cov)

DetectPrintPattern(f) == f.fft_ratio > FFT_PATTERN_THRESHOLD

DetectScreenCharacteristics(f) == f.s_std < 20 \/ f.avg_corr > 900

\* correlation > VIDEO_REPLAY_REPEAT_THRESHOLD, which is 0.75 = 3 / 4
DetectRepetition(bh) ==
    IF Len(bh) < 15 THEN FALSE
    ELSE LET mid         == Len(bh) \div 2
             first_half  == SubSeq(bh, 1, mid)
             second_half == SubSeq(bh, mid + 1, mid * 2)
         IN  CorrelationAbove(first_half, second_half, 3, 4)

CheckSkinFeatures(f) ==
    IF f.h < PATCH_SIZE * 2 \/ f.w < PATCH_SIZE * 2 THEN TRUE
    ELSE f.patch_var_var > 50

\* is_attack with the bar at 0.8
IsAttackHighBar(conf) == conf >= 800

\* is_attack = confidence >= 0.5
IsAttack(conf) == conf >= 500

\* the weights of the three indicators of each classifier
IndicatorWeights(a) ==
    CASE a = "photo_attack"  -> <<400, 300, 300>>
      [] a = "screen_attack" -> <<300, 300, 400>>
      [] a = "video_replay"  -> <<400, 400, 200>>
      [] a = "fake_finger"   -> <<400, 300, 300>>

\* the confidence detect_photo_attack computes
\* detect_photo_attack without the low-motion indicator
DetectPhotoAttackNoMotion(motion_score, texture_score, f) ==
    (IF texture_score < PHOTO_ATTACK_TEXTURE_MAX THEN 300 ELSE 0)
    + (IF DetectPrintPattern(f) THEN 300 ELSE 0)

DetectPhotoAttack(motion_score, texture_score, f) ==
    (IF motion_score < 200 THEN 400 ELSE 0)
    + (IF texture_score < PHOTO_ATTACK_TEXTURE_MAX THEN 300 ELSE 0)
    + (IF DetectPrintPattern(f) THEN 300 ELSE 0)

\* the confidence detect_screen_attack computes
DetectScreenAttack(color_variance, pattern_score, f) ==
    (IF color_variance < 300 THEN 300 ELSE 0)
    + (IF pattern_score < 400 THEN 300 ELSE 0)
    + (IF DetectScreenCharacteristics(f) THEN 400 ELSE 0)

\* detect_video_replay recording the frame's brightness twice
TrackBrightnessTwice(bh, f) ==
    DequeAppend(DequeAppend(bh, f.brightness, HISTORY_LEN), f.brightness, HISTORY_LEN)

\* detect_video_replay, lines 153-154: the frame's mean brightness joins the trace
TrackBrightness(bh, f) == DequeAppend(bh, f.brightness, HISTORY_LEN)

\* the confidence detect_video_replay computes; bh is brightness_history
\* after this frame's brightness was appended
DetectVideoReplay(consistency_score, bh) ==
    (IF Len(bh) >= 10 /\ MaxSeq(Diffs(bh)) > VIDEO_REPLAY_JUMP_MIN THEN 400 ELSE 0)
    + (IF Len(bh) >= 10 /\ DetectRepetition(bh) THEN 400 ELSE 0)
    + (IF consistency_score < 400 THEN 200 ELSE 0)

\* the confidence detect_fake_finger computes
\* detect_fake_finger with 0.5 for the edge indicator
DetectFakeFingerHeavyEdge(edge_density, texture_score, f) ==
    (IF edge_density < 300 \/ edge_density > 800 THEN 500 ELSE 0)
    + (IF texture_score < 400 THEN 300 ELSE 0)
    + (IF ~CheckSkinFeatures(f) THEN 300 ELSE 0)

DetectFakeFinger(edge_density, texture_score, f) ==
    (IF edge_density < 300 \/ edge_density > 800 THEN 400 ELSE 0)
    + (IF texture_score < 400 THEN 300 ELSE 0)
    + (IF ~CheckSkinFeatures(f) THEN 300 ELSE 0)

\* attack_confidence after the four classifiers ran, as analyze_frame calls them
ClassifyAttacks(sc, f, bh) ==
    [photo_attack  |-> DetectPhotoAttack(sc.motion, sc.texture, f),
     screen_attack |-> DetectScreenAttack(sc.color_variance, sc.pattern_detection, f),
     video_replay  |-> DetectVideoReplay(sc.consistency, bh),
     fake_finger   |-> DetectFakeFinger(sc.edge_density, sc.texture, f)]

\* max(attack_confidence.items(), key=...): the first entry with the highest value
MaxAttack(conf) ==
    LET best == MaxSeq([i \in 1..Len(AttackOrder) |-> conf[AttackOrder[i]]])
        idx  == CHOOSE i \in 1..Len(AttackOrder) :
                    /\ conf[AttackOrder[i]] = best
                    /\ \A j \in 1..(i - 1) : conf[AttackOrder[j]] # best
    IN  [name |-> AttackOrder[idx], confidence |-> best]

\* get_primary_attack without the test of the confidence against 0.5
GetPrimaryAttackNoFloor(atk, conf) ==
    IF ~(\E a \in AttackNames : atk[a]) THEN [name |-> "None", confidence |-> 0]
    ELSE MaxAttack(conf)

\* get_primary_attack: (name, confidence) or (None, 0.0)
GetPrimaryAttack(atk, conf) ==
    IF ~(\E a \in AttackNames : atk[a]) THEN [name |-> "None", confidence |-> 0]
    ELSE IF MaxAttack(conf).confidence >= 500 THEN MaxAttack(conf)
         ELSE [name |-> "None", confidence |-> 0]

(***************************************************************************)
(* LivenessDetector: decision helpers                                      *)
(***************************************************************************)
\* screen_indicators of _comprehensive_screen_check; np.std(gray) < t is
\* np.var(gray) < t * t
ScreenIndicators(f, color_score) ==
    (IF color_score < SCREEN_VETO_THRESHOLD THEN 1 ELSE 0)
    + (IF f.variance < SCREEN_BRIGHTNESS_UNIFORMITY * SCREEN_BRIGHTNESS_UNIFORMITY
       THEN 1 ELSE 0)
    + (IF f.avg_corr > SCREEN_RGB_CORRELATION THEN 1 ELSE 0)
    + (IF f.edge_density_sharp < 50 \/ f.edge_density_sharp > 250 THEN 1 ELSE 0)
    + (IF f.bright_ratio > 20 THEN 1 ELSE 0)

ComprehensiveScreenCheck(f, color_score) == ScreenIndicators(f, color_score) >= 3

\* _get_dynamic_instruction
GetDynamicInstruction(overall_score, motion_score, mh) ==
    LET avg_motion == IF mh = <<>> THEN 0 ELSE SumSeq(mh) \div Len(mh)
    IN  IF 10 * avg_motion < MOTION_THRESHOLD_MIN * 3 THEN Instruction("low_motion")
        ELSE IF 10 * avg_motion > MOTION_THRESHOLD_OPTIMAL * 15
             THEN Instruction("too_much_motion")
             ELSE IF motion_score >= 600 THEN Instruction("good_motion")
                  ELSE [key |-> "analyzing", pct |-> overall_score \div 10]

\* progress = min(100, frames_analyzed / MIN_FRAMES_FOR_DECISION * 100), whole percent
Progress(n) == Min2(100, (n * 100) \div MIN_FRAMES_FOR_DECISION)

\* _create_result: the dict built from the arguments and the detector's fields
CreateResult(status, progress, instruction, overall_score, attack_type, conf, sc, live, n) ==
    [status          |-> status,
     progress        |-> progress,
     confidence      |-> conf,
     overall_score   |-> overall_score,
     scores          |-> sc,
     instruction     |-> instruction,
     attack_type     |-> attack_type,
     is_live         |-> live,
     frames_analyzed |-> n]

\* _get_attack_type
GetAttackType(live, atk, conf) ==
    IF live THEN "None" ELSE GetPrimaryAttack(atk, conf).name

(***************************************************************************)
(* The frames the camera delivers.  Each is the record of what the code    *)
(* measures on it: brightness = np.mean(gray), moved = pixels that differ  *)
(* from the previous frame by more than MOTION_PIXEL_THRESHOLD, variance = *)
(* np.var(gray), hf_energy = var of the Laplacian, diversity = std of the  *)
(* Sobel magnitude, edge_density = Canny(50,150) density, total_variance   *)
(* and channel_diversity of the colour channels, fft_ratio = peak / mean   *)
(* of the spectrum, s_std = std of the saturation, avg_corr = mean channel *)
(* correlation, edge_density_sharp = Canny(100,200) density, bright_ratio  *)
(* = share of pixels above 240, patch_var_var = variance of the patch      *)
(* variances, h and w the image size.  Densities, ratios and correlations  *)
(* are in thousandths.                                                     *)
(***************************************************************************)
\* a live finger held before the camera
LiveFinger ==
    [brightness |-> 120, moved |-> 2400, variance |-> 400, hf_energy |-> 320,
     diversity |-> 30, edge_density |-> 200, total_variance |-> 600,
     channel_diversity |-> 25, fft_ratio |-> 10, s_std |-> 30, avg_corr |-> 600,
     edge_density_sharp |-> 100, bright_ratio |-> 5, patch_var_var |-> 80,
     h |-> 480, w |-> 640]

\* the same finger after the light changed
BrightFinger == [LiveFinger EXCEPT !.brightness = 170]

\* a printed photo: still, flat, with a print raster
PrintedPhoto ==
    [LiveFinger EXCEPT !.moved = 0, !.variance = 60, !.hf_energy = 60,
                       !.diversity = 10, !.total_variance = 400,
                       !.channel_diversity = 12, !.fft_ratio = 60, !.avg_corr = 700,
                       !.patch_var_var = 20]

\* a phone screen: uniform, correlated channels, low saturation spread
PhoneScreen ==
    [LiveFinger EXCEPT !.moved = 100, !.variance = 100, !.total_variance = 100,
                       !.channel_diversity = 2, !.s_std = 10, !.avg_corr = 950]

\* a finger under a lamp: uniform brightness, sharp edges and glare
GlareFinger ==
    [LiveFinger EXCEPT !.variance = 200, !.edge_density_sharp = 300, !.bright_ratio = 50]

\* a finger in dim light: little colour
DimFinger == [LiveFinger EXCEPT !.total_variance = 150, !.channel_diversity = 4]

\* a very smooth finger: hardly any edge, uniform patches
SmoothFinger ==
    [LiveFinger EXCEPT !.edge_density = 30, !.edge_density_sharp = 20, !.patch_var_var = 20]

\* a finger held almost still, slightly out of focus
StillFinger ==
    [LiveFinger EXCEPT !.moved = 300, !.variance = 100, !.hf_energy = 180,
                       !.total_variance = 260, !.channel_diversity = 8]

\* a rough surface whose weighted score is exactly the threshold
RoughFinger ==
    [LiveFinger EXCEPT !.variance = 250, !.hf_energy = 75, !.diversity = 0,
                       !.edge_density = 650, !.edge_density_sharp = 200,
                       !.total_variance = 200, !.channel_diversity = 5, !.fft_ratio = 0]

FrameSet == {LiveFinger, BrightFinger, PrintedPhoto, PhoneScreen, GlareFinger,
             DimFinger, SmoothFinger, StillFinger, RoughFinger}

\* how often the picture may change within one session
MaxSwitches == 1

\* cv2.cvtColor(frame, cv2.COLOR_BGR2GRAY): what the code later reads of the gray image
Gray(f) == [brightness |-> f.brightness, moved |-> f.moved]

(***************************************************************************)
(* State                                                                   *)
(***************************************************************************)
InitialScores == [m \in Methods |-> 0]

InitialAttacks == [a \in AttackNames |-> FALSE]

InitialAttackConfidence == [a \in AttackNames |-> 0]

NoFrame == [LiveFinger EXCEPT !.h = 0, !.w = 0]

NoResult == CreateResult("NONE", 0, Instruction("initial"), 0, "None", 0, InitialScores, FALSE, 0)

\* the lifecycle phase of the detector
Phase == IF final_decision_made THEN "DECIDED"
         ELSE IF analysis_started THEN "ANALYZING" ELSE "WAITING"

\* no scripted scenario: the camera is free
NoScript == [scenario |-> "none", todo |-> <<>>]

\* a configuration: the six weights, here in thousandths, with the motion
\* weight as given, and the two thresholds that are fractions
Config(motion_weight, liveness_threshold, screen_veto_threshold) ==
    [weights |-> [m \in Methods |-> IF m = "motion" THEN motion_weight ELSE WEIGHTS[m] * 10],
     liveness_threshold |-> liveness_threshold,
     screen_veto_threshold |-> screen_veto_threshold]

\* the configuration as config.py ships it
ShippedConfig == Config(WEIGHTS.motion * 10, LIVENESS_THRESHOLD, SCREEN_VETO_THRESHOLD)

\* the process after a start-up that went through
Booted == [pc |-> "serving", config |-> ShippedConfig, detector_created |-> TRUE]

\* LivenessWebSocketServer.__init__ (server.py): the server state, no client connected
\* result_timestamp = None: no timestamp, no age
Never == -1

ServerInit ==
    /\ current_client = "None"
    /\ analysis_active = FALSE
    /\ is_streaming = FALSE
    /\ camera = "None"
    /\ result_timestamp = Never
    /\ handler = "none"
    /\ connection = [open |-> FALSE, inbox |-> <<>>, sent |-> 0]
    /\ saved_count = 0
    /\ reply = [to |-> "None", type |-> "none"]
    /\ shown_for = Never
    /\ last_frame = NoFrame
    /\ frames_received = 0
    /\ pending = <<>>
    /\ delivered = 0

\* LivenessDetector.__init__ and AttackDetector.__init__
DetectorInit ==
    /\ frame_buffer = <<>>
    /\ gray_buffer = <<>>
    /\ motion_history = <<>>
    /\ frames_analyzed = 0
    /\ is_live = FALSE
    /\ confidence = 0
    /\ final_decision_made = FALSE
    /\ analysis_started = FALSE
    /\ scores = InitialScores
    /\ current_instruction = Instruction("initial")
    /\ attacks = InitialAttacks
    /\ attack_confidence = InitialAttackConfidence
    /\ brightness_history = <<>>
    /\ pattern_history = <<>>
    /\ result = NoResult
    /\ call = [op |-> "init", finger_detected |-> FALSE, frame |-> NoFrame,
               phase |-> "WAITING", frames_before |-> 0]

\* the detector on its own, fed by a camera that rarely changes its picture
Init ==
    /\ DetectorInit
    /\ switches = 0
    /\ script = NoScript
    /\ boot = Booted
    /\ ServerInit

\* AttackDetector.reset with the brightness trace left in place
AttackDetectorResetKeepsHistory ==
    /\ attacks' = [a \in DOMAIN attacks |-> FALSE]
    /\ attack_confidence' = [a \in DOMAIN attack_confidence |-> 0]
    /\ pattern_history' = <<>>
    /\ UNCHANGED brightness_history

\* AttackDetector.reset
AttackDetectorReset ==
    /\ attacks' = [a \in DOMAIN attacks |-> FALSE]
    /\ attack_confidence' = [a \in DOMAIN attack_confidence |-> 0]
    /\ brightness_history' = <<>>
    /\ pattern_history' = <<>>

\* reset that leaves the frame counter alone
DetectorResetKeepsCount ==
    /\ frame_buffer' = <<>>
    /\ gray_buffer' = <<>>
    /\ motion_history' = <<>>
    /\ AttackDetectorReset
    /\ frames_analyzed' = frames_analyzed
    /\ is_live' = FALSE
    /\ confidence' = 0
    /\ final_decision_made' = FALSE
    /\ analysis_started' = FALSE
    /\ scores' = [m \in DOMAIN scores |-> 0]
    /\ current_instruction' = Instruction("initial")

\* LivenessDetector.reset: the assignments it makes
DetectorReset ==
    /\ frame_buffer' = <<>>
    /\ gray_buffer' = <<>>
    /\ motion_history' = <<>>
    /\ AttackDetectorReset
    /\ frames_analyzed' = 0
    /\ is_live' = FALSE
    /\ confidence' = 0
    /\ final_decision_made' = FALSE
    /\ analysis_started' = FALSE
    /\ scores' = [m \in DOMAIN scores |-> 0]
    /\ current_instruction' = Instruction("initial")

\* a caller invokes reset()
Reset ==
    /\ DetectorReset
    /\ UNCHANGED result
    /\ call' = [op |-> "reset", finger_detected |-> FALSE, frame |-> NoFrame,
                phase |-> Phase, frames_before |-> frames_analyzed]

(***************************************************************************)
(* LivenessDetector.analyze_frame                                          *)
(***************************************************************************)
\* the record of the call being made, with the phase it finds
AnalyzeCall(f, finger_detected) ==
    [op |-> "analyze_frame", finger_detected |-> finger_detected, frame |-> f,
     phase |-> Phase, frames_before |-> frames_analyzed]

\* the camera: the picture it delivers differs from the last buffered one at
\* most MaxSwitches times between two resets
SamePicture(f) == IF frame_buffer = <<>> THEN TRUE ELSE f = frame_buffer[Len(frame_buffer)]

CameraAllows(f) == IF SamePicture(f) THEN TRUE ELSE switches < MaxSwitches

\* the camera delivers f: the count of picture changes in the session under way
Camera(f, finger_detected) ==
    /\ CameraAllows(f)
    /\ switches' = IF final_decision_made THEN switches
                   ELSE IF ~finger_detected THEN 0
                        ELSE IF SamePicture(f) THEN switches ELSE switches + 1

\* CountFrame with the first frame of an analysis left uncounted
CountFrameSkipsFirst(started, n) == IF ~started THEN 0 ELSE n + 1

\* frames_analyzed after the call counted this frame
CountFrame(started, n) == (IF ~started THEN 0 ELSE n) + 1

\* DecisionDue with > in place of >=
DecisionDueLate(decided, n) == ~decided /\ n > MIN_FRAMES_FOR_DECISION

\* the condition under which the scoring call decides
DecisionDue(decided, n) == ~decided /\ n >= MIN_FRAMES_FOR_DECISION

\* PassesThreshold with > in place of >=
PassesThresholdStrict(overall_score) == overall_score > LIVENESS_THRESHOLD

\* is_live of the normal decision
PassesThreshold(overall_score) == overall_score >= LIVENESS_THRESHOLD

\* the MAKE DECISION block without the colour-variance veto
DecideWithoutColourVeto(f, color_score, overall_score, primary) ==
    IF ComprehensiveScreenCheck(f, color_score)
    THEN [is_live |-> FALSE, confidence |-> 300, status |-> "SPOOF",
          instruction |-> Instruction("screen_attack"), force_screen |-> TRUE]
    ELSE IF PassesThreshold(overall_score)
         THEN [is_live |-> TRUE, confidence |-> overall_score, status |-> "LIVE",
               instruction |-> Instruction("live_detected"), force_screen |-> FALSE]
         ELSE [is_live |-> FALSE, confidence |-> overall_score, status |-> "SPOOF",
               instruction |-> IF primary.name # "None"
                               THEN Instruction(primary.name)
                               ELSE Instruction("spoof_detected"),
               force_screen |-> FALSE]

\* the MAKE DECISION block: the verdict, the instruction and whether the
\* screen_attack flag is forced
Decide(f, color_score, overall_score, primary) ==
    IF ComprehensiveScreenCheck(f, color_score)
    THEN [is_live |-> FALSE, confidence |-> 300, status |-> "SPOOF",
          instruction |-> Instruction("screen_attack"), force_screen |-> TRUE]
    ELSE IF SCREEN_VETO_ENABLED /\ color_score < SCREEN_VETO_THRESHOLD
         THEN [is_live |-> FALSE, confidence |-> color_score, status |-> "SPOOF",
               instruction |-> Instruction("screen_attack"), force_screen |-> TRUE]
         ELSE IF PassesThreshold(overall_score)
              THEN [is_live |-> TRUE, confidence |-> overall_score, status |-> "LIVE",
                    instruction |-> Instruction("live_detected"), force_screen |-> FALSE]
              ELSE [is_live |-> FALSE, confidence |-> overall_score, status |-> "SPOOF",
                    instruction |-> IF primary.name # "None"
                                    THEN Instruction(primary.name)
                                    ELSE Instruction("spoof_detected"),
                    force_screen |-> FALSE]

\* attack_type of the result of a scoring call
ScoredAttackType(primary) == primary.name

\* analyze_frame without the early return: the extractors run again on the
\* new frame after the decision
AnalyzeDecidedRescoring(f, finger_detected) ==
    /\ final_decision_made
    /\ scores' = IF finger_detected
                 THEN ExtractScores(f, DequeAppend(gray_buffer, Gray(f), MOTION_FRAMES))
                 ELSE scores
    /\ result' = CreateResult(IF is_live THEN "LIVE" ELSE "SPOOF", 100, current_instruction,
                              confidence, GetAttackType(is_live, attacks, attack_confidence),
                              confidence, scores', is_live, frames_analyzed)
    /\ call' = AnalyzeCall(f, finger_detected)
    /\ UNCHANGED <<frame_buffer, gray_buffer, motion_history, frames_analyzed, is_live,
                   confidence, final_decision_made, analysis_started,
                   current_instruction, attacks, attack_confidence,
                   brightness_history, pattern_history>>

\* lines 95-107: a decision was made, the held verdict is returned
AnalyzeDecided(f, finger_detected) ==
    /\ final_decision_made
    /\ result' = CreateResult(IF is_live THEN "LIVE" ELSE "SPOOF", 100, current_instruction,
                              confidence, GetAttackType(is_live, attacks, attack_confidence),
                              confidence, scores, is_live, frames_analyzed)
    /\ call' = AnalyzeCall(f, finger_detected)
    /\ UNCHANGED detector

\* the no-finger branch without the reset of an analysis under way
AnalyzeNoFingerKeepsState(f) ==
    /\ ~final_decision_made
    /\ result' = CreateResult("WAITING", 0, Instruction("show_index_finger"), 0, "None",
                              confidence, scores, is_live, frames_analyzed)
    /\ call' = AnalyzeCall(f, FALSE)
    /\ UNCHANGED detector

\* lines 109-119: no finger, an analysis under way is reset
AnalyzeNoFinger(f) ==
    /\ ~final_decision_made
    /\ IF analysis_started /\ ~final_decision_made
       THEN DetectorReset
       ELSE UNCHANGED detector
    /\ result' = CreateResult("WAITING", 0, Instruction("show_index_finger"), 0, "None",
                              confidence', scores', is_live', frames_analyzed')
    /\ call' = AnalyzeCall(f, FALSE)

\* the collecting branch with the motion score already computed
AnalyzeCollectingScoresMotion(f) ==
    LET n == CountFrame(analysis_started, frames_analyzed)
    IN  /\ ~final_decision_made
        /\ Len(frame_buffer) + 1 < MIN_BUFFERED
        /\ analysis_started' = TRUE
        /\ frames_analyzed' = n
        /\ frame_buffer' = DequeAppend(frame_buffer, f, MOTION_FRAMES)
        /\ gray_buffer' = DequeAppend(gray_buffer, Gray(f), MOTION_FRAMES)
        /\ scores' = [scores EXCEPT !.motion = DetectMotion(gray_buffer')]
        /\ result' = CreateResult("ANALYZING", Progress(n), Instruction("collecting"), 0,
                                  "None", confidence, scores', is_live, n)
        /\ call' = AnalyzeCall(f, TRUE)
        /\ UNCHANGED <<motion_history, is_live, confidence, final_decision_made,
                       current_instruction, attacks, attack_confidence,
                       brightness_history, pattern_history>>

\* lines 121-145: a finger, fewer than 3 frames buffered
AnalyzeCollecting(f) ==
    LET n == CountFrame(analysis_started, frames_analyzed)
    IN  /\ ~final_decision_made
        /\ Len(frame_buffer) + 1 < MIN_BUFFERED
        /\ analysis_started' = TRUE
        /\ frames_analyzed' = n
        /\ frame_buffer' = DequeAppend(frame_buffer, f, MOTION_FRAMES)
        /\ gray_buffer' = DequeAppend(gray_buffer, Gray(f), MOTION_FRAMES)
        /\ result' = CreateResult("ANALYZING", Progress(n), Instruction("collecting"), 0,
                                  "None", confidence, scores, is_live, n)
        /\ call' = AnalyzeCall(f, TRUE)
        /\ UNCHANGED <<motion_history, is_live, confidence, final_decision_made, scores,
                       current_instruction, attacks, attack_confidence,
                       brightness_history, pattern_history>>

\* lines 121-271: a finger, at least 3 frames buffered: extractors,
\* classifiers and, on the frame that completes the count, the decision
AnalyzeScoring(f) ==
    LET n       == CountFrame(analysis_started, frames_analyzed)
        overall == CalculateOverallScore(scores')
        atk     == [a \in AttackNames |-> IsAttack(attack_confidence'[a])]
        primary == GetPrimaryAttack(atk, attack_confidence')
        due     == DecisionDue(final_decision_made, n)
        d       == Decide(f, scores'.color_variance, overall, primary)
    IN  /\ ~final_decision_made
        /\ Len(frame_buffer) + 1 >= MIN_BUFFERED
        /\ analysis_started' = TRUE
        /\ frames_analyzed' = n
        /\ frame_buffer' = DequeAppend(frame_buffer, f, MOTION_FRAMES)
        /\ gray_buffer' = DequeAppend(gray_buffer, Gray(f), MOTION_FRAMES)
        /\ scores' = ExtractScores(f, gray_buffer')
        /\ motion_history' = DequeAppend(motion_history, AvgMotion(gray_buffer'), HISTORY_LEN)
        /\ brightness_history' = TrackBrightness(brightness_history, f)
        /\ attack_confidence' = ClassifyAttacks(scores', f, brightness_history')
        /\ attacks' = IF due /\ d.force_screen THEN [atk EXCEPT !.screen_attack = TRUE] ELSE atk
        /\ is_live' = IF due THEN d.is_live ELSE is_live
        /\ confidence' = IF due THEN d.confidence ELSE confidence
        /\ final_decision_made' = IF due THEN TRUE ELSE final_decision_made
        /\ current_instruction' = IF due THEN d.instruction
                                  ELSE GetDynamicInstruction(overall, scores'.motion,
                                                             motion_history')
        /\ result' = CreateResult(IF due THEN d.status ELSE "ANALYZING", Progress(n),
                                  current_instruction', overall, ScoredAttackType(primary),
                                  confidence', scores', is_live', n)
        /\ call' = AnalyzeCall(f, TRUE)
        /\ UNCHANGED pattern_history

\* analyze_frame(frame, finger_detected)
AnalyzeFrame(f, finger_detected) ==
    \/ AnalyzeDecided(f, finger_detected)
    \/ ~finger_detected /\ AnalyzeNoFinger(f)
    \/ finger_detected /\ AnalyzeCollecting(f)
    \/ finger_detected /\ AnalyzeScoring(f)

Next ==
    \/ \E f \in FrameSet, finger_detected \in BOOLEAN :
          /\ Camera(f, finger_detected)
          /\ AnalyzeFrame(f, finger_detected)
          /\ UNCHANGED <<script, boot, server>>
    \/ /\ Reset
       /\ switches' = 0
       /\ UNCHANGED <<script, boot, server>>

Spec == Init /\ [][Next]_vars

(***************************************************************************)
(* Scripted sessions: the camera plays a fixed list of frames into         *)
(* analyze_frame, one call per frame                                       *)
(***************************************************************************)
\* n calls with a finger on the same picture
Session(f, n) == [i \in 1..n |-> [frame |-> f, finger_detected |-> TRUE]]

\* Scenario A: pictures in which no pixel moves and the variance of the
\* Laplacian is below 80, every other measurement low or high
StillFrames ==
    {[LiveFinger EXCEPT !.moved = 0, !.hf_energy = hf, !.variance = v, !.diversity = dv,
                        !.fft_ratio = fr, !.total_variance = tv, !.channel_diversity = tv \div 25,
                        !.edge_density = e, !.edge_density_sharp = e \div 2,
                        !.patch_var_var = pv, !.avg_corr = ac] :
        hf \in {0, 40, 79}, v \in {60, 79, 400}, dv \in {0, 30}, fr \in {10, 60},
        tv \in {40, 600}, e \in {30, 200}, pv \in {20, 80}, ac \in {600, 950}}

ScenarioA == {[scenario |-> "A", todo |-> Session(f, 15)] : f \in StillFrames}

\* Scenario C: the finger leaves the picture at frame 8 of 15
ScenarioC ==
    {[scenario |-> "C",
      todo |-> [i \in 1..15 |-> [frame |-> f, finger_detected |-> (i # 8)]]] :
        f \in {LiveFinger, PrintedPhoto}}

\* Scenario D: a looped video.  The brightness is a ramp of 10 frames that
\* starts again at frame 11
Ramp(start, step, i) == start + step * ((i - 1) % 10)

ReplayRamps == {<<60, 4>>, <<60, 5>>, <<100, 4>>, <<100, 5>>, <<100, -4>>, <<100, -5>>,
                <<0, 28>>, <<252, -28>>}

ReplaySession(f, r) ==
    [i \in 1..20 |-> [frame |-> [f EXCEPT !.brightness = Ramp(r[1], r[2], i)],
                      finger_detected |-> TRUE]]

\* what Scenario D asks of the 20 brightness samples: the second 10
\* correlate with the first 10 above 0.75, the step into frame 11 is the one
\* jump above 35
IsReplayTrace(b) ==
    /\ Len(b) = 20
    /\ CorrelationAbove(SubSeq(b, 1, 10), SubSeq(b, 11, 20), 3, 4)
    /\ \A i \in 1..19 : (Diffs(b)[i] > VIDEO_REPLAY_JUMP_MIN) <=> (i = 10)

Brightness(todo) == [i \in 1..Len(todo) |-> todo[i].frame.brightness]

ScenarioD ==
    {sc \in {[scenario |-> "D", todo |-> ReplaySession(f, r)] :
                 f \in {LiveFinger, StillFinger}, r \in ReplayRamps} :
        IsReplayTrace(Brightness(sc.todo))}

\* how many frames a session of extreme measurements runs
ExtremeRun == 6

\* Scenario X: every raw measurement at zero, just above zero or at the far
\* end of its range; the brightness steady or flickering between black and white
ExtremeFrames ==
    {[LiveFinger EXCEPT !.brightness = b, !.moved = m, !.variance = t, !.hf_energy = t,
                        !.diversity = t, !.edge_density = e, !.edge_density_sharp = e,
                        !.total_variance = c, !.channel_diversity = c, !.fft_ratio = p] :
        b \in {0, 255}, m \in {0, 1, 307200}, t \in {0, 1, 100000}, e \in {0, 1, 1000},
        c \in {0, 1, 100000}, p \in {0, 1, 100000}}

ExtremeSession(f, flicker) ==
    [i \in 1..ExtremeRun |->
        [frame |-> IF flicker /\ i % 2 = 0 THEN [f EXCEPT !.brightness = 255 - f.brightness]
                   ELSE f,
         finger_detected |-> TRUE]]

ScenarioX ==
    {[scenario |-> "X", todo |-> ExtremeSession(f, flicker)] :
        f \in ExtremeFrames, flicker \in BOOLEAN}

ScenarioInit ==
    /\ DetectorInit
    /\ switches = 0
    /\ script \in ScenarioA \cup ScenarioC \cup ScenarioD \cup ScenarioX
    /\ boot = Booted
    /\ ServerInit

\* the next frame of the script goes into analyze_frame
Play ==
    /\ script.todo # <<>>
    /\ AnalyzeFrame(Head(script.todo).frame, Head(script.todo).finger_detected)
    /\ script' = [script EXCEPT !.todo = Tail(@)]
    /\ UNCHANGED <<switches, boot, server>>

ScenarioNext == Play

Scenarios == ScenarioInit /\ [][ScenarioNext]_vars

(***************************************************************************)
(* Process start: config.validate_config, then the detectors, then the     *)
(* server (LivenessWebSocketServer.__init__ and main of server.py and      *)
(* server_cloud.py, main of demo_trackd.py)                                *)
(***************************************************************************)
\* sum(WEIGHTS.values())
TotalWeight(w) ==
    w.motion + w.texture + w.consistency + w.edge_density + w.color_variance
    + w.pattern_detection

\* config.validate_config: "ok", or the exception it raises
ValidateConfig(c) ==
    IF ~(990 <= TotalWeight(c.weights) /\ TotalWeight(c.weights) <= 1010) THEN "ValueError"
    ELSE IF ~(0 <= c.liveness_threshold /\ c.liveness_threshold <= 1000) THEN "ValueError"
         ELSE "ok"

\* the configurations a deployment may have edited into config.py: the sum
\* of the weights off by 0.02, by 0.005 or exact, each threshold below 0,
\* at 0, inside, at 1 or above 1
Configs ==
    {Config(mw, lt, svt) : mw \in {280, 295, 300, 305, 320},
                           lt \in {-100, 0, 700, 1000, 1100},
                           svt \in {-100, 0, 500, 1000, 1500}}

StartupInit ==
    /\ DetectorInit
    /\ switches = 0
    /\ script = NoScript
    /\ boot \in {[pc |-> "start", config |-> c, detector_created |-> FALSE] : c \in Configs}
    /\ ServerInit

\* config.validate_config() is called; what it raises ends the process
Validate ==
    /\ boot.pc = "start"
    /\ boot' = [boot EXCEPT !.pc = IF ValidateConfig(boot.config) = "ok"
                                   THEN "validated" ELSE "failed"]
    /\ UNCHANGED <<detector, result, call, switches, script, server>>

\* LivenessDetector() and FingerDetector() are constructed
CreateDetectors ==
    /\ boot.pc = "validated"
    /\ boot' = [boot EXCEPT !.pc = "initialized", !.detector_created = TRUE]
    /\ UNCHANGED <<detector, result, call, switches, script, server>>

\* websockets.serve: clients are accepted from here on
Serve ==
    /\ boot.pc = "initialized"
    /\ boot' = [boot EXCEPT !.pc = "serving"]
    /\ UNCHANGED <<detector, result, call, switches, script, server>>

StartupNext == Validate \/ CreateDetectors \/ Serve

Startup == StartupInit /\ [][StartupNext]_vars

(***************************************************************************)
(* The local WebSocket server (server.py)                                  *)
(***************************************************************************)
\* how many commands the client sends on one connection
MaxCommands == 2

\* how many results the clients may ask to save
MaxSaved == 1

\* server.py line 62, server_cloud.py line 55: seconds a result is shown
RESULT_DISPLAY_TIME == 3

\* the websockets that may arrive
Connections == {"c1", "c2"}

Commands == {"START_ANALYSIS", "RESET", "SAVE_RESULT", "STOP_STREAM", "RESUME_STREAM"}

\* what the server's camera can show
ServerFrames == {LiveFinger, PrintedPhoto}

\* a message other than a result, sent to connection c
Reply(c, type) == [to |-> c, type |-> type]

\* the fields only server_cloud.py has, and the results on their way
cloud == <<last_frame, frames_received, pending, delivered>>

\* the age a second later; the code tells no difference between ages past
\* RESULT_DISPLAY_TIME
Age(t) == IF t = Never THEN Never ELSE Min2(t + 1, RESULT_DISPLAY_TIME)

\* a second passes
Tick ==
    /\ result_timestamp' = Age(result_timestamp)
    /\ shown_for' = Age(shown_for)
    /\ <<result_timestamp', shown_for'>> # <<result_timestamp, shown_for>>
    /\ UNCHANGED <<detector, result, call, switches, script, boot, current_client,
                   analysis_active, is_streaming, camera, handler, connection,
                   saved_count, reply, cloud>>

\* handle_client, lines 100-129: a websocket arrives while no client is
\* current and is accepted
Connect(c) ==
    /\ ~connection.open
    /\ handler = "none"
    /\ current_client = "None"
    /\ current_client' = c
    /\ handler' = "listening"
    /\ connection' = [open |-> TRUE, inbox |-> <<>>, sent |-> 0]
    /\ reply' = Reply(c, "connection")
    /\ UNCHANGED <<detector, result, call, switches, script, boot, analysis_active,
                   is_streaming, camera, result_timestamp, saved_count, shown_for, cloud>>

\* handle_client that runs its finally block for a rejected websocket as well
RejectBusyWithCleanup(c) ==
    /\ current_client # "None"
    /\ c # current_client
    /\ reply' = Reply(c, "busy")
    /\ current_client' = "None"
    /\ UNCHANGED <<detector, result, call, switches, script, boot, analysis_active,
                   is_streaming, camera, result_timestamp, handler, connection,
                   saved_count, shown_for, cloud>>

\* handle_client, lines 111-118 (server_cloud.py 115-121): a websocket
\* arrives while another is current; it is told "Server busy" and closed
RejectBusy(c) ==
    /\ current_client # "None"
    /\ c # current_client
    /\ reply' = Reply(c, "busy")
    /\ UNCHANGED <<detector, result, call, switches, script, boot, current_client,
                   analysis_active, is_streaming, camera, result_timestamp, handler,
                   connection, saved_count, shown_for, cloud>>

\* the client sends a command
ClientSend(command) ==
    /\ connection.open
    /\ connection.sent < MaxCommands
    /\ command = "SAVE_RESULT" => saved_count < MaxSaved
    /\ connection' = [connection EXCEPT !.inbox = Append(@, command), !.sent = @ + 1]
    /\ UNCHANGED <<detector, result, call, switches, script, boot, current_client,
                   analysis_active, is_streaming, camera, result_timestamp, handler,
                   saved_count, reply, shown_for, cloud>>

\* the client closes the connection
Disconnect ==
    /\ connection.open
    /\ connection' = [connection EXCEPT !.open = FALSE]
    /\ UNCHANGED <<detector, result, call, switches, script, boot, current_client,
                   analysis_active, is_streaming, camera, result_timestamp, handler,
                   saved_count, reply, shown_for, cloud>>

\* start_analysis, lines 188-235: ends inside stream_loop, which it awaits
StartAnalysis(opened) ==
    /\ IF analysis_active
       THEN /\ reply' = Reply(current_client, "status")
            /\ UNCHANGED <<detector, result, call, analysis_active, is_streaming, camera,
                           handler, shown_for>>
       ELSE IF ~opened
            THEN /\ camera' = "unopened"
                 /\ reply' = Reply(current_client, "error")
                 /\ UNCHANGED <<detector, result, call, analysis_active, is_streaming,
                                handler, shown_for>>
            ELSE /\ camera' = "open"
                 /\ Reset
                 /\ shown_for' = Never
                 /\ analysis_active' = TRUE
                 /\ is_streaming' = TRUE
                 /\ reply' = Reply(current_client, "status")
                 /\ handler' = "streaming"
    /\ UNCHANGED <<result_timestamp, saved_count>>

\* reset_analysis, lines 250-267
ResetAnalysis ==
    /\ Reset
    /\ result_timestamp' = Never
    /\ shown_for' = Never
    /\ reply' = Reply(current_client, "status")
    /\ UNCHANGED <<analysis_active, is_streaming, camera, handler, saved_count>>

\* save_result, lines 269-322: read tells whether camera.read() gave a
\* frame, written whether the file could be written
SaveResult(read, written) ==
    /\ IF ~is_live \/ camera = "None" \/ camera = "unopened" \/ ~read \/ ~written
       THEN /\ reply' = Reply(current_client, "error")
            /\ UNCHANGED saved_count
       ELSE /\ saved_count' = saved_count + 1
            /\ reply' = Reply(current_client, "save_result")
    /\ UNCHANGED <<detector, result, call, analysis_active, is_streaming, camera,
                   result_timestamp, handler, shown_for>>

\* handle_client, lines 132-167: the loop over the messages reads the next
\* command and runs its branch to the end
HandleCommand ==
    /\ handler = "listening"
    /\ connection.open
    /\ connection.inbox # <<>>
    /\ connection' = [connection EXCEPT !.inbox = Tail(@)]
    /\ LET command == Head(connection.inbox)
       IN  CASE command = "START_ANALYSIS" -> \E opened \in BOOLEAN : StartAnalysis(opened)
             [] command = "RESET" -> ResetAnalysis
             [] command = "SAVE_RESULT" ->
                    \E read \in BOOLEAN, written \in BOOLEAN : SaveResult(read, written)
             [] command = "STOP_STREAM" ->
                    /\ is_streaming' = FALSE
                    /\ reply' = Reply(current_client, "status")
                    /\ UNCHANGED <<detector, result, call, analysis_active, camera,
                                   result_timestamp, handler, saved_count, shown_for>>
             [] command = "RESUME_STREAM" ->
                    /\ is_streaming' = IF analysis_active THEN TRUE ELSE is_streaming
                    /\ reply' = IF analysis_active THEN Reply(current_client, "status")
                                ELSE reply
                    /\ UNCHANGED <<detector, result, call, analysis_active, camera,
                                   result_timestamp, handler, saved_count, shown_for>>
    /\ UNCHANGED <<switches, script, boot, current_client, cloud>>

\* stream_loop, lines 336-358: one pass reads a frame and analyzes it.  A
\* pass that finds is_streaming false, or no frame, sleeps and changes nothing.
StreamAnalyze ==
    /\ handler = "streaming"
    /\ analysis_active
    /\ is_streaming
    /\ connection.open
    /\ \E f \in ServerFrames, finger_detected \in BOOLEAN :
          /\ SamePicture(f)
          /\ AnalyzeFrame(f, finger_detected)
    /\ handler' = "analyzed"
    /\ UNCHANGED <<switches, script, boot, current_client, analysis_active, is_streaming,
                   camera, result_timestamp, connection, saved_count, reply, shown_for, cloud>>

\* the auto-restart check of both servers on the result of the call just
\* made: the first LIVE or SPOOF result sets the timestamp, a later one
\* resets the detector once RESULT_DISPLAY_TIME has passed since the timestamp
AutoRestart ==
    IF result.status \in {"LIVE", "SPOOF"} /\ result_timestamp = Never
    THEN /\ result_timestamp' = 0
         /\ UNCHANGED <<detector, result, call>>
    ELSE IF result.status \in {"LIVE", "SPOOF"}
            /\ result_timestamp >= RESULT_DISPLAY_TIME
         THEN /\ Reset
              /\ result_timestamp' = Never
         ELSE UNCHANGED <<detector, result, call, result_timestamp>>

\* stream_loop, lines 360-387: the auto-restart check, then the message is
\* sent; shown_for counts the seconds since the client first saw the decision
StreamSend ==
    /\ handler = "analyzed"
    /\ AutoRestart
    /\ shown_for' = IF ~final_decision_made' THEN Never
                      ELSE IF shown_for = Never /\ connection.open THEN 0
                           ELSE shown_for
    /\ handler' = "streaming"
    /\ UNCHANGED <<switches, script, boot, current_client, analysis_active, is_streaming,
                   camera, connection, saved_count, reply, cloud>>

\* handle_client, lines 178-186, with stop_analysis: the connection is
\* closed, the loops end and the finally block runs
Cleanup ==
    /\ ~connection.open
    /\ handler \in {"listening", "streaming"}
    /\ current_client' = "None"
    /\ analysis_active' = FALSE
    /\ is_streaming' = IF analysis_active THEN FALSE ELSE is_streaming
    /\ camera' = IF analysis_active THEN "None" ELSE camera
    /\ handler' = "none"
    /\ connection' = [connection EXCEPT !.inbox = <<>>]
    /\ UNCHANGED <<detector, result, call, switches, script, boot, result_timestamp,
                   saved_count, reply, shown_for, cloud>>

ServerNext ==
    \/ \E c \in Connections : Connect(c)
    \/ \E c \in Connections : RejectBusy(c)
    \/ \E command \in Commands : ClientSend(command)
    \/ Disconnect
    \/ HandleCommand
    \/ StreamAnalyze
    \/ StreamSend
    \/ Cleanup
    \/ Tick

\* asyncio runs every coroutine that can run: a command that can be read is
\* read, a pass of the stream loop that can be made is made
Server ==
    /\ Init
    /\ [][ServerNext]_vars
    /\ WF_vars(HandleCommand)
    /\ WF_vars(StreamAnalyze)
    /\ WF_vars(StreamSend)
    /\ WF_vars(Cleanup)

(***************************************************************************)
(* The cloud WebSocket server (server_cloud.py): the client sends the      *)
(* frames.  A frame message is "frame" in the inbox; the number of its     *)
(* result is frames_received, as in the frame_count of the response.       *)
(***************************************************************************)
\* how many frames the client sends on one connection
MaxFrames == 16

\* how many messages may wait unread
MaxUnread == 1

CloudCommands == {"START_ANALYSIS", "RESET", "SAVE_RESULT", "STOP_ANALYSIS"}

\* a sequence without its i-th element
Without(s, i) == SubSeq(s, 1, i - 1) \o SubSeq(s, i + 1, Len(s))

\* handle_client, lines 103-134: a websocket arrives while no client is
\* current and is accepted
CloudConnect(c) ==
    /\ ~connection.open
    /\ handler = "none"
    /\ current_client = "None"
    /\ current_client' = c
    /\ handler' = "listening"
    /\ connection' = [open |-> TRUE, inbox |-> <<>>, sent |-> 0]
    /\ delivered' = 0
    /\ reply' = Reply(c, "connection")
    /\ UNCHANGED <<detector, result, call, switches, script, boot, analysis_active,
                   is_streaming, camera, result_timestamp, saved_count, shown_for, last_frame, frames_received, pending>>

\* the client sends a command
CloudClientSend(command) ==
    /\ connection.open
    /\ Len(connection.inbox) < MaxUnread
    /\ command = "SAVE_RESULT" => saved_count < MaxSaved
    /\ connection' = [connection EXCEPT !.inbox = Append(@, command)]
    /\ UNCHANGED <<detector, result, call, switches, script, boot, current_client,
                   analysis_active, is_streaming, camera, result_timestamp, handler,
                   saved_count, reply, shown_for, cloud>>

\* the client sends a camera frame
ClientSendFrame ==
    /\ connection.open
    /\ frames_received < MaxFrames
    /\ Len(connection.inbox) < MaxUnread
    /\ connection' = [connection EXCEPT !.inbox = Append(@, "frame")]
    /\ UNCHANGED <<detector, result, call, switches, script, boot, current_client,
                   analysis_active, is_streaming, camera, result_timestamp, handler,
                   saved_count, reply, shown_for, last_frame, frames_received,
                   pending, delivered>>

\* start_analysis, lines 189-219
CloudStartAnalysis ==
    /\ IF analysis_active
       THEN UNCHANGED <<detector, result, call, analysis_active, result_timestamp,
                        frames_received, delivered>>
       ELSE /\ Reset
            /\ frames_received' = 0
            /\ delivered' = 0
            /\ result_timestamp' = Never
            /\ analysis_active' = TRUE
    /\ reply' = Reply(current_client, "status")
    /\ UNCHANGED saved_count

\* stop_analysis, lines 221-239
CloudStopAnalysis ==
    /\ analysis_active' = FALSE
    /\ Reset
    /\ reply' = Reply(current_client, "status")
    /\ UNCHANGED <<result_timestamp, frames_received, saved_count, delivered>>

\* reset_analysis, lines 241-259
CloudResetAnalysis ==
    /\ Reset
    /\ result_timestamp' = Never
    /\ frames_received' = 0
    /\ delivered' = 0
    /\ reply' = Reply(current_client, "status")
    /\ UNCHANGED <<analysis_active, saved_count>>

\* save_result without the is_live test
CloudSaveResultUnchecked(written) ==
    /\ IF last_frame = NoFrame \/ ~written
       THEN /\ reply' = Reply(current_client, "error")
            /\ UNCHANGED saved_count
       ELSE /\ saved_count' = saved_count + 1
            /\ reply' = Reply(current_client, "save_result")
    /\ UNCHANGED <<detector, result, call, analysis_active, result_timestamp,
                   frames_received, delivered>>

\* save_result, lines 326-383: written tells whether the files could be written
CloudSaveResult(written) ==
    /\ IF ~is_live \/ last_frame = NoFrame \/ ~written
       THEN /\ reply' = Reply(current_client, "error")
            /\ UNCHANGED saved_count
       ELSE /\ saved_count' = saved_count + 1
            /\ reply' = Reply(current_client, "save_result")
    /\ UNCHANGED <<detector, result, call, analysis_active, result_timestamp,
                   frames_received, delivered>>

\* handle_client, lines 137-165: the loop over the messages reads a command
\* and runs its branch to the end
CloudHandleCommand ==
    /\ handler = "listening"
    /\ connection.open
    /\ connection.inbox # <<>>
    /\ Head(connection.inbox) # "frame"
    /\ connection' = [connection EXCEPT !.inbox = Tail(@)]
    /\ LET command == Head(connection.inbox)
       IN  CASE command = "START_ANALYSIS" -> CloudStartAnalysis
             [] command = "RESET" -> CloudResetAnalysis
             [] command = "SAVE_RESULT" -> \E written \in BOOLEAN : CloudSaveResult(written)
             [] command = "STOP_ANALYSIS" -> CloudStopAnalysis
    /\ UNCHANGED <<switches, script, boot, current_client, is_streaming, camera, handler,
                   shown_for, last_frame, pending>>

\* what the finger detector may answer: the client's first frame of an
\* analysis may lack the finger, the later ones show it
FingerSeen == IF frames_received = 0 THEN BOOLEAN ELSE {TRUE}

\* process_frame started as a task of its own instead of being awaited
ProcessFrameAsTask(decoded) ==
    /\ handler \in {"listening", "analyzed"}
    /\ connection.open
    /\ connection.inbox # <<>>
    /\ Head(connection.inbox) = "frame"
    /\ connection' = [connection EXCEPT !.inbox = Tail(@)]
    /\ IF ~analysis_active \/ ~decoded
       THEN UNCHANGED <<detector, result, call, handler, last_frame, frames_received,
                        pending>>
       ELSE /\ \E f \in ServerFrames, finger_detected \in FingerSeen :
                  /\ SamePicture(f)
                  /\ last_frame' = f
                  /\ AnalyzeFrame(f, finger_detected)
            /\ frames_received' = frames_received + 1
            /\ pending' = Append(pending, frames_received')
            /\ handler' = "analyzed"
    /\ UNCHANGED <<switches, script, boot, current_client, analysis_active, is_streaming,
                   camera, result_timestamp, saved_count, reply, shown_for,
                   delivered>>

\* handle_client, lines 137-144, and process_frame, lines 261-296: the loop
\* reads a frame message and awaits process_frame, which ignores it when no
\* analysis is active or when it cannot be decoded and analyzes it otherwise
ProcessFrame(decoded) ==
    /\ handler = "listening"
    /\ connection.open
    /\ connection.inbox # <<>>
    /\ Head(connection.inbox) = "frame"
    /\ connection' = [connection EXCEPT !.inbox = Tail(@)]
    /\ IF ~analysis_active \/ ~decoded
       THEN UNCHANGED <<detector, result, call, handler, last_frame, frames_received,
                        pending>>
       ELSE /\ \E f \in ServerFrames, finger_detected \in FingerSeen :
                  /\ SamePicture(f)
                  /\ last_frame' = f
                  /\ AnalyzeFrame(f, finger_detected)
            /\ frames_received' = frames_received + 1
            /\ pending' = Append(pending, frames_received')
            /\ handler' = "analyzed"
    /\ UNCHANGED <<switches, script, boot, current_client, analysis_active, is_streaming,
                   camera, result_timestamp, saved_count, reply, shown_for,
                   delivered>>

\* process_frame, lines 298-316: the auto-restart check, then the response
\* of the frame is sent and the loop reads on
FrameRespond ==
    /\ pending # <<>>
    /\ \E i \in 1..Len(pending) :
          /\ pending' = Without(pending, i)
          /\ delivered' = IF connection.open THEN pending[i] ELSE delivered
    /\ AutoRestart
    /\ handler' = "listening"
    /\ UNCHANGED <<switches, script, boot, current_client, analysis_active, is_streaming,
                   camera, connection, saved_count, reply, shown_for, last_frame,
                   frames_received>>

\* handle_client, lines 178-187: the connection is closed, the loop ends
\* and the finally block runs
CloudCleanup ==
    /\ ~connection.open
    /\ handler = "listening"
    /\ pending = <<>>
    /\ current_client' = "None"
    /\ analysis_active' = FALSE
    /\ IF analysis_active THEN Reset ELSE UNCHANGED <<detector, result, call>>
    /\ handler' = "none"
    /\ connection' = [connection EXCEPT !.inbox = <<>>]
    /\ UNCHANGED <<switches, script, boot, is_streaming, camera, result_timestamp,
                   saved_count, reply, shown_for, last_frame, frames_received,
                   pending, delivered>>

CloudNext ==
    \/ \E c \in Connections : CloudConnect(c)
    \/ \E c \in Connections : RejectBusy(c)
    \/ \E command \in CloudCommands : CloudClientSend(command)
    \/ ClientSendFrame
    \/ Disconnect
    \/ CloudHandleCommand
    \/ \E decoded \in BOOLEAN : ProcessFrame(decoded)
    \/ FrameRespond
    \/ CloudCleanup
    \/ Tick

Cloud == Init /\ [][CloudNext]_vars

(***************************************************************************)
(* Properties                                                              *)
(***************************************************************************)
\* the last call was an analyze_frame call
Analyzed == call.op = "analyze_frame"

\* the last call was the analyze_frame call that made the decision
Deciding == Analyzed /\ call.phase # "DECIDED" /\ final_decision_made

\* the state of a freshly constructed detector
FreshDetector ==
    <<<<>>, <<>>, <<>>, 0, FALSE, 0, FALSE, FALSE,
      [motion |-> 0, texture |-> 0, consistency |-> 0, edge_density |-> 0,
       color_variance |-> 0, pattern_detection |-> 0],
      [key |-> "initial", pct |-> -1],
      [photo_attack |-> FALSE, screen_attack |-> FALSE, video_replay |-> FALSE,
       fake_finger |-> FALSE],
      [photo_attack |-> 0, screen_attack |-> 0, video_replay |-> 0, fake_finger |-> 0],
      <<>>, <<>> >>

\* C1: once a call returned LIVE or SPOOF, every later call before a reset
\* returns the same status, is_live, confidence and attack_type
C1_TerminalImmutability ==
    [][(final_decision_made /\ final_decision_made')
        => /\ result'.status = result.status
           /\ result'.is_live = result.is_live
           /\ result'.confidence = result.confidence
           /\ result'.attack_type = result.attack_type]_vars

\* C2: a deciding call on a frame with at least 3 of the 5 screen indicators
\* returns SPOOF, not live, confidence 0.3 and attack_type screen_attack
C2_ScreenVeto ==
    (Deciding /\ ScreenIndicators(call.frame, scores.color_variance) >= 3)
        => /\ result.status = "SPOOF"
           /\ ~result.is_live
           /\ result.confidence = 300
           /\ result.attack_type = "screen_attack"

\* C3: the decision is made on the call that brings frames_analyzed to
\* MIN_FRAMES_FOR_DECISION, never before, and the count never passes it
C3_DecisionAtMinFrames ==
    /\ frames_analyzed <= MIN_FRAMES_FOR_DECISION
    /\ final_decision_made <=> frames_analyzed = MIN_FRAMES_FOR_DECISION
    /\ Analyzed => (result.status \in {"LIVE", "SPOOF"}
                       <=> result.frames_analyzed = MIN_FRAMES_FOR_DECISION)
    /\ (Analyzed /\ call.phase # "DECIDED" /\ result.status \in {"LIVE", "SPOOF"})
           => call.frames_before = MIN_FRAMES_FOR_DECISION - 1

C3_Witness == Deciding /\ call.frames_before = 14 /\ frames_analyzed = 15

\* C4: a call without a finger during an undecided analysis returns WAITING
\* with progress 0 and count 0 and leaves the detector in its initial state
C4_FingerLostResets ==
    (Analyzed /\ ~call.finger_detected /\ call.phase = "ANALYZING")
        => /\ result.status = "WAITING"
           /\ result.progress = 0
           /\ result.frames_analyzed = 0
           /\ detector = FreshDetector

C4_Witness ==
    Analyzed /\ ~call.finger_detected /\ call.phase = "ANALYZING" /\ call.frames_before = 8

\* C5: with fewer than 3 screen indicators and a color_variance score not
\* below the veto threshold, the deciding call sets is_live exactly when the
\* weighted score is at least 0.70, and the confidence is that score
C5_NormalDecision ==
    (/\ Deciding
     /\ ScreenIndicators(call.frame, scores.color_variance) < 3
     /\ scores.color_variance >= 500)
        => /\ is_live <=> CalculateOverallScore(scores) >= 700
           /\ confidence = CalculateOverallScore(scores)
           /\ result.is_live = is_live
           /\ result.confidence = confidence
           /\ result.status = IF is_live THEN "LIVE" ELSE "SPOOF"

C5_Witness ==
    /\ Deciding
    /\ ScreenIndicators(call.frame, scores.color_variance) < 3
    /\ scores.color_variance >= 500
    /\ confidence = 700
    /\ result.status = "LIVE"

\* C6: with fewer than 3 screen indicators and a color_variance score below
\* the veto threshold, the deciding call returns SPOOF with the color score
\* as confidence and attack_type screen_attack
C6_ColorVeto ==
    (/\ Deciding
     /\ ScreenIndicators(call.frame, scores.color_variance) < 3
     /\ scores.color_variance < 500)
        => /\ result.status = "SPOOF"
           /\ result.confidence = scores.color_variance
           /\ result.attack_type = "screen_attack"

\* C7: an analyze_frame call with a finger before a decision adds 1 to
\* frames_analyzed, from 0 when the analysis had not started; a reset (the
\* command or the loss of the finger) sets it to 0; nothing else changes it
C7_FrameCounting ==
    [][IF call'.op = "analyze_frame" /\ call'.finger_detected /\ ~final_decision_made
       THEN /\ frames_analyzed' = (IF analysis_started THEN frames_analyzed ELSE 0) + 1
            /\ ~analysis_started => frames_analyzed' = 1
            /\ result'.frames_analyzed = frames_analyzed'
       ELSE IF call'.op = "reset" \/ (analysis_started /\ ~final_decision_made)
            THEN frames_analyzed' = 0
            ELSE frames_analyzed' = frames_analyzed]_vars

C7_Witness ==
    /\ Analyzed
    /\ call.finger_detected
    /\ call.phase = "ANALYZING"
    /\ call.frames_before = 7
    /\ frames_analyzed = 8

\* C8: after reset() in any phase the detector and its attack detector are
\* in the state of a freshly constructed detector
C8_ResetRestoresInitialState == call.op = "reset" => detector = FreshDetector

C8_Witness == call.op = "reset" /\ call.phase = "DECIDED" /\ call.frames_before = 15

\* C9 as claimed: a SPOOF decision of the normal rule is reported with the
\* primary attack, or with the label "uncertain" when no classifier reached
\* 0.5, never with none
C9_SpoofLabelOrUncertain ==
    (/\ Deciding
     /\ result.status = "SPOOF"
     /\ ScreenIndicators(call.frame, scores.color_variance) < 3
     /\ scores.color_variance >= 500)
        => /\ result.attack_type # "None"
           /\ result.attack_type =
                  IF \E a \in AttackNames : attack_confidence[a] >= 500
                  THEN MaxAttack(attack_confidence).name
                  ELSE "uncertain"

\* C9 as amended: a SPOOF result carries the name of a classifier whose
\* confidence is the highest of the four and at least 0.5, and carries no
\* label (None) when no classifier reached 0.5
C9_SpoofLabelOrNone ==
    (Analyzed /\ result.status = "SPOOF")
        => IF \E a \in AttackNames : attack_confidence[a] >= 500
           THEN /\ result.attack_type \in AttackNames
                /\ attack_confidence[result.attack_type] >= 500
                /\ \A b \in AttackNames :
                       attack_confidence[b] <= attack_confidence[result.attack_type]
           ELSE result.attack_type = "None"

C9_Witness ==
    /\ Deciding
    /\ result.status = "SPOOF"
    /\ ScreenIndicators(call.frame, scores.color_variance) < 3
    /\ scores.color_variance >= 500
    /\ \A a \in AttackNames : attack_confidence[a] < 500
    /\ result.attack_type = "None"

\* C10 as claimed: every call with a finger, in ANALYZING with 3 frames
\* buffered or in DECIDED, returns scores computed on the frame of that call
C10_ScoresFollowLatestFrame ==
    (Analyzed /\ call.finger_detected
     /\ (call.phase = "DECIDED" \/ Len(frame_buffer) >= MIN_BUFFERED))
        => /\ result.scores.texture = AnalyzeTexture(call.frame)
           /\ result.scores.edge_density = AnalyzeEdgeDensity(call.frame)
           /\ result.scores.color_variance = AnalyzeColorVariance(call.frame)
           /\ result.scores.pattern_detection = DetectPatterns(call.frame)

\* C10 as amended: before the decision a call with a finger and 3 frames
\* buffered recomputes the six scores and the four classifiers on its frame;
\* after the decision a call changes nothing in the detector and returns the
\* scores and the verdict of the deciding call
C10_ScoringStopsAtDecision ==
    [][(call'.op = "analyze_frame" /\ call'.finger_detected)
        => IF final_decision_made
           THEN /\ UNCHANGED detector
                /\ result'.scores = scores
                /\ result'.is_live = is_live
                /\ result'.confidence = confidence
           ELSE Len(frame_buffer') >= MIN_BUFFERED
                    => /\ scores' = ExtractScores(call'.frame, gray_buffer')
                       /\ result'.scores = scores'
                       /\ brightness_history'
                              = Append(brightness_history, call'.frame.brightness)
                       /\ attack_confidence'
                              = ClassifyAttacks(scores', call'.frame, brightness_history')]_vars

C10_Witness ==
    /\ Analyzed
    /\ call.finger_detected
    /\ call.phase = "DECIDED"
    /\ result.scores = scores
    /\ result.scores.texture # AnalyzeTexture(call.frame)

\* the decision of the call just made came from one of the two screen vetoes
Vetoed ==
    \/ ComprehensiveScreenCheck(call.frame, scores.color_variance)
    \/ scores.color_variance < SCREEN_VETO_THRESHOLD

\* the highest of the four attack confidences
TopConfidence == MaxAttack(attack_confidence).confidence

\* C11 (Scenario D): once the 20 frames of a looped video (second 10
\* brightness samples equal to the first 10, one jump above 35 into frame 11)
\* have been fed, the video_replay confidence reached 0.5.  The confidences
\* of frame 15 are the ones held from then on, so the last state tells.
C11_ScenarioD ==
    (script.scenario = "D" /\ script.todo = <<>>) => attack_confidence.video_replay >= 500

\* C12 (Scenario A) as claimed: the 15th call on a still picture with a
\* Laplacian variance below 80 returns SPOOF labelled photo_attack or
\* screen_attack (here for the decisions no screen veto took)
C12_ScenarioA ==
    (script.scenario = "A" /\ Deciding /\ ~Vetoed)
        => /\ result.status = "SPOOF"
           /\ result.attack_type \in {"photo_attack", "screen_attack"}

\* C12 amended: the 15th call of Scenario A returns SPOOF and the
\* photo_attack confidence holds at least the 0.4 of the low-motion
\* indicator; the label is photo_attack exactly when that confidence reaches
\* 0.5 and no attack has a higher one, and none when no attack reaches 0.5
C12_ScenarioASpoof ==
    (script.scenario = "A" /\ Deciding)
        => /\ frames_analyzed = 15
           /\ result.status = "SPOOF"
           /\ ~result.is_live
           /\ attack_confidence.photo_attack >= 400
           /\ (result.attack_type = "photo_attack")
                  <=> (/\ attack_confidence.photo_attack >= 500
                       /\ attack_confidence.photo_attack = TopConfidence)
           /\ (result.attack_type = "None") <=> (TopConfidence < 500)

C12_Witness ==
    /\ script.scenario = "A"
    /\ Deciding
    /\ ~Vetoed
    /\ result.status = "SPOOF"
    /\ result.attack_type = "None"
    /\ attack_confidence.photo_attack = 400
    /\ call.frame.hf_energy < 80
    /\ scores.motion = 0

\* C17: each of the six extractor scores, stored or returned, is in [0,1],
\* also for measurements at zero and far beyond the optimal or maximal value
C17_ScoresInUnitInterval ==
    \A m \in Methods : /\ scores[m] \in 0..1000
                        /\ result.scores[m] \in 0..1000

C17_Witness ==
    /\ script.scenario = "X"
    /\ Analyzed
    /\ Len(frame_buffer) >= MIN_BUFFERED
    /\ call.frame.edge_density = 1000
    /\ call.frame.moved = 307200
    /\ call.frame.variance = 0
    /\ result.scores.edge_density = 0
    /\ result.scores.motion = 1000
    /\ result.scores.texture = 0
    /\ result.scores.consistency = 200

\* what get_primary_attack returns in the current state
Primary == GetPrimaryAttack(attacks, attack_confidence)

\* C13: get_primary_attack returns an attack whose confidence is the
\* maximum of the four when that maximum is at least 0.5, and (None, 0.0)
\* otherwise, also once the decision has forced the screen_attack flag
C13_PrimaryAttackIsMaximum ==
    IF \E a \in AttackNames : attack_confidence[a] >= 500
    THEN /\ Primary.name \in AttackNames
         /\ Primary.confidence = attack_confidence[Primary.name]
         /\ \A b \in AttackNames : attack_confidence[b] <= Primary.confidence
    ELSE Primary = [name |-> "None", confidence |-> 0]

C13_Witness ==
    /\ Deciding
    /\ attacks.screen_attack
    /\ attack_confidence.screen_attack < 500
    /\ \A a \in AttackNames : attack_confidence[a] < 500
    /\ Primary.name = "None"

\* the confidences a classifier can reach: the sums of its indicator weights
IndicatorSums(a) ==
    {x * IndicatorWeights(a)[1] + y * IndicatorWeights(a)[2] + z * IndicatorWeights(a)[3] :
        x \in {0, 1}, y \in {0, 1}, z \in {0, 1}}

\* the decision held was taken by one of the two screen vetoes
DecidedByVeto ==
    IF ~final_decision_made \/ frame_buffer = <<>> THEN FALSE
    ELSE \/ ComprehensiveScreenCheck(frame_buffer[Len(frame_buffer)], scores.color_variance)
         \/ scores.color_variance < SCREEN_VETO_THRESHOLD

\* C14 as claimed: after every analyze_frame call each attack confidence is
\* in [0,1] and a sum of indicator weights, and the flag is true exactly
\* when the confidence is at least 0.5
C14_AttackStateConsistent ==
    Analyzed => \A a \in AttackNames :
                    /\ attack_confidence[a] \in 0..1000
                    /\ attack_confidence[a] \in IndicatorSums(a)
                    /\ attacks[a] <=> (attack_confidence[a] >= 500)

\* C14 amended: the same, except that the screen_attack flag is also true
\* once a screen veto has decided, whatever its confidence
C14_AttackStateConsistentButForced ==
    Analyzed => \A a \in AttackNames :
                    /\ attack_confidence[a] \in 0..1000
                    /\ attack_confidence[a] \in IndicatorSums(a)
                    /\ attacks[a] <=> \/ attack_confidence[a] >= 500
                                      \/ a = "screen_attack" /\ DecidedByVeto

C14_Witness ==
    /\ Deciding
    /\ ComprehensiveScreenCheck(call.frame, scores.color_variance)
    /\ attacks.screen_attack
    /\ attack_confidence.screen_attack = 0
    /\ \E a \in AttackNames : attacks[a] /\ attack_confidence[a] >= 500

\* the call just made ran the extractors
ScoringCall ==
    /\ Analyzed
    /\ call.finger_detected
    /\ call.phase # "DECIDED"
    /\ Len(frame_buffer) >= MIN_BUFFERED

\* C15: on a scoring call the overall score is the sum of the six scores
\* weighted 0.30/0.20/0.10/0.10/0.20/0.10, the weights sum to 1.0 within
\* 0.01, and the overall score is in [0,1]
C15_WeightedSum ==
    ScoringCall =>
        /\ result.overall_score =
              (30 * result.scores.motion + 20 * result.scores.texture
               + 10 * result.scores.consistency + 10 * result.scores.edge_density
               + 20 * result.scores.color_variance
               + 10 * result.scores.pattern_detection) \div 100
        /\ WEIGHTS = [motion |-> 30, texture |-> 20, consistency |-> 10, edge_density |-> 10,
                      color_variance |-> 20, pattern_detection |-> 10]
        /\ WEIGHTS.motion + WEIGHTS.texture + WEIGHTS.consistency + WEIGHTS.edge_density
           + WEIGHTS.color_variance + WEIGHTS.pattern_detection \in 99..101
        /\ result.overall_score \in 0..1000

C15_Witness ==
    /\ ScoringCall
    /\ result.scores.motion = 0
    /\ result.scores.color_variance = 1000
    /\ result.overall_score > 200
    /\ result.overall_score < 700

\* C18: the result of every analyze_frame call carries the stored scores,
\* which are all 0.0 while fewer than 3 frames are buffered and otherwise
\* the six scores one call extracted together from the last buffered frame
C18_ScoresUpdatedTogether ==
    Analyzed =>
        /\ result.scores = scores
        /\ IF Len(frame_buffer) < MIN_BUFFERED THEN scores = InitialScores
           ELSE scores = ExtractScores(frame_buffer[Len(frame_buffer)], gray_buffer)

C18_Witness ==
    /\ ScoringCall
    /\ call.frames_before = 2
    /\ \A m \in Methods : result.scores[m] > 0

\* C19: the frame buffer and the grayscale buffer never hold more than
\* MOTION_FRAMES entries; a call with a finger before the decision appends
\* its frame and, when the buffer was full, drops the oldest; reset leaves
\* both empty
C19_FrameBufferBound ==
    [][/\ Len(frame_buffer') <= 10
       /\ Len(gray_buffer') <= 10
       /\ (call'.op = "reset") => (frame_buffer' = <<>> /\ gray_buffer' = <<>>)
       /\ (call'.op = "analyze_frame" /\ call'.finger_detected /\ call'.phase # "DECIDED")
             => /\ frame_buffer' = LastN(Append(frame_buffer, call'.frame), 10)
                /\ gray_buffer' = LastN(Append(gray_buffer, Gray(call'.frame)), 10)]_vars

C19_Witness ==
    /\ Analyzed
    /\ call.finger_detected
    /\ call.frames_before = 11
    /\ frames_analyzed = 12
    /\ Len(frame_buffer) = 10
    /\ Len(gray_buffer) = 10
    /\ frame_buffer[1] # frame_buffer[10]
    /\ frame_buffer[10] = call.frame

\* what the thresholds that are fractions must satisfy, and the weights
ConfigInRange(c) ==
    /\ TotalWeight(c.weights) \in 990..1010
    /\ c.liveness_threshold \in 0..1000
    /\ c.screen_veto_threshold \in 0..1000

\* C16: no detector is created and no client served before validate_config
\* has run, and a configuration whose weights do not sum to 1.0 within
\* 0.01, or whose LIVENESS_THRESHOLD or SCREEN_VETO_THRESHOLD is outside
\* [0,1], never gets past it
C16_FailFast ==
    /\ boot.pc = "start" => ~boot.detector_created
    /\ ~ConfigInRange(boot.config) => (boot.pc \in {"start", "failed"} /\ ~boot.detector_created)

\* C20: a command that waits unread while the stream loop runs is handled,
\* or the connection is closed
C20_CommandsEventuallyHandled ==
    (handler # "none" /\ analysis_active /\ connection.open /\ connection.inbox # <<>>)
        ~> (connection.inbox = <<>> \/ ~connection.open)

\* the brightness of the k-th of the last CONSISTENCY_WINDOW buffered
\* grayscale frames
LastBrightness(k) == gray_buffer[Len(gray_buffer) - CONSISTENCY_WINDOW + k].brightness

\* the k-th consecutive brightness difference among those frames
BrightnessStep(k) == Abs(LastBrightness(k + 1) - LastBrightness(k))

\* the sum of the 4 differences; the average is a quarter of it
BrightnessSteps == BrightnessStep(1) + BrightnessStep(2) + BrightnessStep(3) + BrightnessStep(4)

\* C26: with fewer than 5 grayscale frames buffered the consistency score is
\* exactly 0.5; with 5 or more it is exactly 0.2 when one of the 4 differences
\* among the last 5 exceeds 40, whatever the average; otherwise it is 1.0 for
\* an average below 15 and 1 - (average - 15) / 50 from there on
C26_ConsistencySpecialCases ==
    ScoringCall =>
        IF Len(gray_buffer) < 5 THEN scores.consistency = 500
        ELSE IF \E k \in 1..4 : BrightnessStep(k) > 40 THEN scores.consistency = 200
             ELSE IF BrightnessSteps < 4 * 15 THEN scores.consistency = 1000
                  ELSE /\ scores.consistency = 1000 - (BrightnessSteps - 4 * 15) * 5
                       /\ scores.consistency < 1000

\* a jump of more than 40 in a window whose average difference is at most 15
C26_Witness ==
    /\ ScoringCall
    /\ Len(gray_buffer) >= 5
    /\ \E k \in 1..4 : BrightnessStep(k) > 40
    /\ BrightnessSteps <= 4 * 15
    /\ scores.consistency = 200

\* C27 as claimed: for a frame whose edge density lies inside the real-skin
\* band [0.15, 0.35] the 0.4 of the fake-finger classifier is not added, so
\* its confidence is made of the texture and the skin-feature indicators only
\* and one of them alone cannot bring it to 0.5
C27_NormalEdgeDensityNotCounted ==
    (ScoringCall /\ call.frame.edge_density \in EDGE_DENSITY_MIN..EDGE_DENSITY_MAX) =>
        /\ attack_confidence.fake_finger =
              (IF scores.texture < 400 THEN 300 ELSE 0)
              + (IF ~CheckSkinFeatures(call.frame) THEN 300 ELSE 0)
        /\ (attack_confidence.fake_finger >= 500 =>
              (scores.texture < 400 /\ ~CheckSkinFeatures(call.frame)))

\* C28: the video-replay brightness trace holds max(0, frames_analyzed - 2)
\* samples, never more than 13, so the repetition test never contributes and
\* the video_replay confidence never exceeds 0.6
C28_ReplayTraceTooShort ==
    /\ Len(brightness_history) = Max2(0, frames_analyzed - 2)
    /\ Len(brightness_history) <= 13
    /\ ~DetectRepetition(brightness_history)
    /\ attack_confidence.video_replay <= 600

\* a looped video was fed to the end: 13 samples, the jump and the low
\* consistency counted on the deciding frame
C28_Witness ==
    /\ script.scenario = "D"
    /\ script.todo = <<>>
    /\ frames_analyzed = 15
    /\ Len(brightness_history) = 13
    /\ attack_confidence.video_replay >= 400

\* C29: in every DECIDED state is_live holds exactly when the held confidence
\* is at least 0.70; no LIVE verdict is held for a deciding frame whose
\* color_variance score is below 0.5 or on which 3 or more screen indicators
\* are true; every SPOOF verdict has a confidence below 0.70
C29_VerdictMatchesConfidence ==
    final_decision_made =>
        /\ is_live <=> confidence >= LIVENESS_THRESHOLD
        /\ is_live =>
              /\ scores.color_variance >= SCREEN_VETO_THRESHOLD
              /\ ScreenIndicators(frame_buffer[Len(frame_buffer)], scores.color_variance) < 3
        /\ ~is_live => confidence < LIVENESS_THRESHOLD

\* the colour veto alone turned a frame that scored 0.70 or more into SPOOF
C29_Witness ==
    /\ Deciding
    /\ ~is_live
    /\ scores.color_variance < SCREEN_VETO_THRESHOLD
    /\ ScreenIndicators(call.frame, scores.color_variance) < 3
    /\ CalculateOverallScore(scores) >= LIVENESS_THRESHOLD
    /\ confidence = scores.color_variance

\* C30: is_live implies final_decision_made; final_decision_made implies
\* analysis_started and frames_analyzed = 15; with analysis_started false the
\* detector is in its initial state, so a finger_detected = false call in
\* WAITING leaves it there
C30_Lifecycle ==
    /\ is_live => final_decision_made
    /\ final_decision_made =>
          (analysis_started /\ frames_analyzed = MIN_FRAMES_FOR_DECISION)
    /\ ~analysis_started => detector = FreshDetector
    /\ (Analyzed /\ ~call.finger_detected /\ call.phase = "WAITING") =>
          (detector = FreshDetector /\ result.status = "WAITING")

\* a call without a finger, showing a frame other than the live finger, was
\* made in WAITING and left the detector in its initial state
C30_Witness ==
    /\ Analyzed
    /\ ~call.finger_detected
    /\ call.phase = "WAITING"
    /\ call.frames_before = 0
    /\ call.frame # LiveFinger
    /\ detector = FreshDetector

\* this step handles the SAVE_RESULT command at the head of the inbox
SaveHandled ==
    /\ handler = "listening"
    /\ connection.open
    /\ connection.inbox # <<>>
    /\ Head(connection.inbox) = "SAVE_RESULT"
    /\ connection'.inbox = Tail(connection.inbox)

\* C21: the saved counter grows, by one, only in a step that handles
\* SAVE_RESULT while the detector holds a LIVE decision; a SAVE_RESULT handled
\* in any other state (WAITING, ANALYZING, SPOOF, after a reset) is answered
\* with an error and the counter stays
C21_SaveOnlyLive ==
    [][ /\ saved_count' # saved_count =>
              /\ SaveHandled
              /\ final_decision_made /\ is_live
              /\ saved_count' = saved_count + 1
              /\ reply' = Reply(current_client, "save_result")
        /\ (SaveHandled /\ ~(final_decision_made /\ is_live)) =>
              /\ saved_count' = saved_count
              /\ reply' = Reply(current_client, "error") ]_vars

\* a LIVE result was saved on request
C21_Witness ==
    /\ saved_count = 1
    /\ reply.type = "save_result"
    /\ final_decision_made
    /\ is_live

\* everything but reply
AllButReply ==
    <<detector, result, call, switches, script, boot, current_client, analysis_active,
      is_streaming, camera, result_timestamp, handler, connection, saved_count,
      shown_for, cloud>>

\* C22: a handler is in its message loop exactly when a client is current;
\* the current client is never replaced by another, only cleared; a websocket
\* arriving while another is current is answered "Server busy" and nothing of
\* the server or the detector changes; a websocket arriving while none is
\* current becomes the current client
C22_SingleClient ==
    [][ /\ (handler = "none") <=> (current_client = "None")
        /\ (current_client # "None" /\ current_client' # current_client) =>
              current_client' = "None"
        /\ (reply'.type = "busy" /\ reply' # reply) =>
              /\ current_client # "None"
              /\ reply'.to # current_client
              /\ UNCHANGED AllButReply
        /\ (current_client = "None" /\ current_client' # "None") =>
              /\ reply' = Reply(current_client', "connection")
              /\ handler' = "listening" ]_vars

\* c1 was turned away while c2 is the current client, in the middle of an
\* analysis
C22_Witness ==
    /\ reply = Reply("c1", "busy")
    /\ current_client = "c2"
    /\ analysis_active
    /\ frames_analyzed > 0

\* C23 as claimed: when no client is served, analysis_active is false, the
\* camera is not open and the detector's frame buffers and histories are empty
C23_TeardownReleasesFrames ==
    handler = "none" =>
        /\ ~analysis_active
        /\ camera # "open"
        /\ frame_buffer = <<>>
        /\ gray_buffer = <<>>
        /\ motion_history = <<>>
        /\ brightness_history = <<>>
        /\ pattern_history = <<>>

\* C24: at most one frame is being processed at any instant; a frame is
\* accepted only when no other is in progress and is analyzed in the step
\* that accepts it; the results reach the client one by one in the order of
\* the frames
C24_OneFrameAtATime ==
    [][ /\ Len(pending) <= 1
        /\ Len(pending') <= 1
        /\ frames_received' = frames_received + 1 =>
              /\ handler = "listening"
              /\ pending = <<>>
              /\ pending' = <<frames_received'>>
              /\ call'.op = "analyze_frame"
        /\ (delivered' # delivered /\ delivered' # 0) =>
              /\ delivered' = delivered + 1
              /\ pending = <<delivered'>>
              /\ pending' = <<>> ]_vars

\* the third frame is in progress, the results of the first two were
\* delivered and the next frame waits unread
C24_Witness ==
    /\ delivered = 2
    /\ pending = <<3>>
    /\ handler = "analyzed"
    /\ connection.inbox = <<"frame">>

\* C25 as claimed: the stream loop resets the detector on its own only when
\* the decision has been shown to the client for RESULT_DISPLAY_TIME seconds
C25_ResultHeld ==
    [][ (handler = "analyzed" /\ call'.op = "reset") =>
            (shown_for # Never /\ shown_for >= RESULT_DISPLAY_TIME) ]_vars

====
